---- MODULE Spec2Model ----
(***************************************************************************)
(* State-machine model of src/sample.py: rejection sampling of rotated     *)
(* square plots inside an area of interest, with per-plot statistics of    *)
(* an underlying point dataset.                                            *)
(*                                                                         *)
(* Numbers.  Coordinates are metres, held as integers.  A candidate is the *)
(* square of side `size` with origin (px, py), rotated by 45 degrees about *)
(* its centroid: a diamond with centre (px + size/2, py + size/2) and      *)
(* half-diagonal size/sqrt(2).  The model keeps the doubled centre         *)
(* (cx2, cy2) and the side, so every comparison against the irrational     *)
(* half-diagonal r is an exact integer comparison of squares:              *)
(*      2*d <= 2*r   <=>   d >= 0 => (2*d)^2 <= 2*size^2.                  *)
(* Means, variances and areas are exact fractions [num, den].              *)
(***************************************************************************)
EXTENDS Integers, Sequences, FiniteSets, TLC

(* ------------------------------ bounds -------------------------------- *)
MaxN == 2          \* largest sample_n explored
MaxF == 2          \* largest termination_f explored
\* cap on the attempt counter (it is unbounded when the budget is 0)
MaxCount == MaxN * MaxF + 1

(* ----------------------------- settings ------------------------------- *)
\* [min, max] size in hectares, in configured order
sample_sizes == << <<1, 4>>, <<4, 9>> >>

\* side lengths (m) the uniform draw of the area is sampled at
SizeSamples == {100, 150, 200, 250}
\* integer origins the uniform draw of the origin is sampled at
XSamples == {-25, 0, 50, 100, 250}
YSamples == {-25, 0, 100, 200}

(* ------------------------------ inputs -------------------------------- *)
Pt(x, y, v) == [x |-> x, y |-> y, GRID_CODE |-> v]
Rect(x0, y0, x1, y1) == [minx |-> x0, miny |-> y0, maxx |-> x1, maxy |-> y1]

\* point layers the run may be given: empty, a 400 m field, a 100 m field
Datasets ==
  { << >>,
    << Pt(0, 0, 1), Pt(400, 400, 5), Pt(100, 150, 3), Pt(35, 150, 4),
       Pt(50, 100, 2), Pt(300, 150, 7) >>,
    << Pt(0, 0, 1), Pt(100, 100, 2) >> }

\* AOI layers the run may be given: no polygon, one polygon, two adjacent polygons
AOIs ==
  { << >>,
    << Rect(0, 0, 400, 400) >>,
    << Rect(0, 0, 200, 400), Rect(200, 0, 400, 400) >> }

VARIABLES sample_n, termination_f, data, bounds, idx, aoi,
          ci, out_mean, out_stdev, out_geom, count, polygon,
          pc, err, stdout, files, ngen, nrej, accepted

vars == << sample_n, termination_f, data, bounds, idx, aoi,
           ci, out_mean, out_stdev, out_geom, count, polygon,
           pc, err, stdout, files, ngen, nrej, accepted >>

(* ------------------------- helper arithmetic -------------------------- *)
Abs(n) == IF n < 0 THEN -n ELSE n
SetMin(S) == CHOOSE m \in S : \A n \in S : m <= n
SetMax(S) == CHOOSE m \in S : \A n \in S : n <= m

RECURSIVE SortedSeq(_)
SortedSeq(S) == IF S = {} THEN << >> ELSE << SetMin(S) >> \o SortedSeq(S \ {SetMin(S)})

RECURSIVE SeqSum(_)
SeqSum(s) == IF Len(s) = 0 THEN 0 ELSE s[1] + SeqSum(Tail(s))

(* --------------------------- data preparation -------------------------- *)
\* data.total_bounds: (minx, miny, maxx, maxy); every entry is NaN for an empty layer
total_bounds(d) ==
  IF Len(d) = 0 THEN [nan |-> TRUE, b |-> << 0, 0, 0, 0 >>]
  ELSE [nan |-> FALSE,
        b |-> << SetMin({d[i].x : i \in 1..Len(d)}), SetMin({d[i].y : i \in 1..Len(d)}),
                 SetMax({d[i].x : i \in 1..Len(d)}), SetMax({d[i].y : i \in 1..Len(d)}) >>]

\* the rtree after the insert loop: one (id, bounds) entry per row, ids from 0
BuildIndex(d) ==
  { [id |-> i - 1, box |-> Rect(d[i].x, d[i].y, d[i].x, d[i].y)] : i \in 1..Len(d) }

(* ------------------------- candidate generation ------------------------ *)
\* size = (uniform(min, max) * 10000) ** 0.5 : the sides whose area lies in [min, max) ha
SizeDraws(sample_size) ==
  { s \in SizeSamples : sample_size[1] * 10000 <= s * s /\ s * s < sample_size[2] * 10000 }

\* int(uniform(lo, hi)): uniform draws from [lo, hi), or from (hi, lo] when hi < lo
\* (numpy does not reject a reversed range); int truncates toward zero
IntUniform(lo, hi, samples) ==
  { v \in samples :
      IF lo = hi THEN v = lo
      ELSE IF lo < hi
           THEN IF v > 0 THEN lo <= v /\ v < hi
                ELSE IF v < 0 THEN lo <= v /\ v <= hi
                ELSE lo <= 0 /\ hi >= 0
           ELSE IF v > 0 THEN hi <= v /\ v <= lo
                ELSE IF v < 0 THEN hi < v /\ v <= lo
                ELSE hi <= 0 /\ lo >= 0 }

\* rotate(Polygon(square at point with side size), 45, origin='centroid')
RotatedSquare(px, py, size) == [cx2 |-> 2 * px + size, cy2 |-> 2 * py + size, size |-> size]

NoPolygon == [cx2 |-> 0, cy2 |-> 0, size |-> 0]

(* ------------------------------ geometry ------------------------------- *)
\* twice the half-diagonal of the rotated square, squared: (2r)^2 = 2 * size^2
Diag2Sq(poly) == 2 * poly.size * poly.size

\* a >= 2r, for a doubled distance a
GeDiag(a, poly) == a >= 0 /\ a * a >= Diag2Sq(poly)

\* polygon.within(rect): the four tips of the rotated square are inside the closed rectangle
Within(poly, rect) ==
  /\ poly.size > 0
  /\ GeDiag(poly.cx2 - 2 * rect.minx, poly)
  /\ GeDiag(2 * rect.maxx - poly.cx2, poly)
  /\ GeDiag(poly.cy2 - 2 * rect.miny, poly)
  /\ GeDiag(2 * rect.maxy - poly.cy2, poly)

\* point.within(polygon): the point is in the interior of the rotated square
PointWithin(p, poly) ==
  (Abs(2 * p.x - poly.cx2) + Abs(2 * p.y - poly.cy2))
    * (Abs(2 * p.x - poly.cx2) + Abs(2 * p.y - poly.cy2)) < Diag2Sq(poly)

\* variant: the bounds of the square before its rotation
SquareBounds(poly) == [cx2 |-> poly.cx2, cy2 |-> poly.cy2, ext2sq |-> poly.size * poly.size]

\* polygon.bounds: the box centre +- half-diagonal, kept as (cx2, cy2, (2 * half-extent)^2)
PolygonBounds(poly) == [cx2 |-> poly.cx2, cy2 |-> poly.cy2, ext2sq |-> Diag2Sq(poly)]

\* a <= 2 * half-extent, for a doubled distance a
LeExt(a, q) == a <= 0 \/ a * a <= q.ext2sq

\* rtree intersection of a stored box with the query box (closed boxes):
\* box.min <= q.max and q.min <= box.max on both axes
BoxIntersects(box, q) ==
  /\ LeExt(2 * box.minx - q.cx2, q)
  /\ LeExt(q.cx2 - 2 * box.maxx, q)
  /\ LeExt(2 * box.miny - q.cy2, q)
  /\ LeExt(q.cy2 - 2 * box.maxy, q)

\* the smallest rectangle around an AOI layer; for the layers of AOIs it is their union
AoiHull(layer) ==
  Rect(SetMin({layer[i].minx : i \in 1..Len(layer)}), SetMin({layer[i].miny : i \in 1..Len(layer)}),
       SetMax({layer[i].maxx : i \in 1..Len(layer)}), SetMax({layer[i].maxy : i \in 1..Len(layer)}))

\* the loop over aoi.index: intersects starts False and is set by any polygon.within
RECURSIVE AoiLoop(_, _, _, _)
AoiLoop(poly, layer, i, intersects) ==
  IF i > Len(layer) THEN intersects
  ELSE AoiLoop(poly, layer, i + 1, IF Within(poly, layer[i]) THEN TRUE ELSE intersects)

\* variant: containment in the union of the AOI polygons
AoiTestUnion(poly, layer) == Len(layer) > 0 /\ Within(poly, AoiHull(layer))

AoiTest(poly, layer) == AoiLoop(poly, layer, 1, FALSE)

(* ----------------------------- aggregation ----------------------------- *)
\* idx.intersection(polygon.bounds): ids of the entries whose box meets the query box
IndexQuery(index, q) == { e.id : e \in { f \in index : BoxIntersects(f.box, q) } }

\* data.iloc[list(ids)]
possible_matches(d, index, poly) ==
  LET ids == SortedSeq(IndexQuery(index, PolygonBounds(poly)))
  IN  [k \in 1..Len(ids) |-> d[ids[k] + 1]]

\* possible_matches[possible_matches.within(polygon)]
precise_matches(d, index, poly) ==
  LET InPoly(p) == PointWithin(p, poly)
  IN  SelectSeq(possible_matches(d, index, poly), InPoly)

\* list(precise_matches.GRID_CODE)
Vals(d, index, poly) ==
  LET m == precise_matches(d, index, poly)
  IN  [k \in 1..Len(m) |-> m[k].GRID_CODE]

\* an exception raised by a call, in place of its value
Raise(e) == [error |-> e]
Raised(r) == "error" \in DOMAIN r

\* variant: an empty mean that yields a value instead of raising
meanSilent(v) ==
  IF Len(v) < 1 THEN [num |-> 0, den |-> 0] ELSE [num |-> SeqSum(v), den |-> Len(v)]

\* statistics.mean: raises StatisticsError on empty data, else sum / n
mean(v) ==
  IF Len(v) < 1 THEN Raise("StatisticsError") ELSE [num |-> SeqSum(v), den |-> Len(v)]

\* statistics.pstdev: raises StatisticsError on empty data, else the square root
\* of the population variance, kept as the variance (n * sum(x^2) - sum(x)^2) / n^2
pstdev(v) ==
  IF Len(v) < 1 THEN Raise("StatisticsError")
  ELSE [varnum |-> Len(v) * SeqSum([k \in 1..Len(v) |-> v[k] * v[k]]) - SeqSum(v) * SeqSum(v),
        varden |-> Len(v) * Len(v)]

(* ------------------------------ the loop ------------------------------- *)
\* variant: one iteration too many
LoopCondLe(geoms, n) == Len(geoms) <= n

\* while len(out_geom) < sample_n
LoopCond(geoms, n) == Len(geoms) < n

\* if count == sample_n * termination_f
GiveUp(c, n, f) == c = n * f

\* variant: lists created once, outside the for loop
KeepList(previous) == previous

\* the result lists at the top of the body of the for loop
FreshList(previous) == << >>

\* variant: insertion at the front
ListPrepend(list, x) == << x >> \o list

\* list.append
ListAppend(list, x) == Append(list, x)

\* variant: export whatever the length
HasResultAlways(geoms) == Len(geoms) >= 0

\* if len(out_geom) > 0
HasResult(geoms) == Len(geoms) > 0

\* f"./out/{sample_size[0]}-{sample_size[1]}-samples.shp"
OutPath(sample_size) ==
  [dir |-> "./out/", min |-> sample_size[1], sep |-> "-", max |-> sample_size[2],
   suffix |-> "-samples.shp"]

\* GeoDataFrame(mean, stdev, geometry) with area = geometry.area * 0.0001
Result(means, stdevs, geoms) ==
  [k \in 1..Len(geoms) |->
     [mean |-> means[k], stdev |-> stdevs[k], geometry |-> geoms[k],
      area |-> [num |-> geoms[k].size * geoms[k].size, den |-> 10000]]]

\* f"{sample_size[0]}-{sample_size[1]} failed at {len(out_geom)} samples."
FailedMsg(sample_size, geoms) ==
  [msg |-> "failed", min |-> sample_size[1], max |-> sample_size[2], samples |-> Len(geoms)]

Init ==
  /\ sample_n \in 0..MaxN
  /\ termination_f \in 0..MaxF
  /\ data \in Datasets
  /\ bounds = total_bounds(data)
  /\ idx = BuildIndex(data)
  /\ aoi \in AOIs
  /\ ci = 0
  /\ out_mean = << >>
  /\ out_stdev = << >>
  /\ out_geom = << >>
  /\ count = 0
  /\ polygon = NoPolygon
  /\ pc = "for"
  /\ err = "none"
  /\ stdout = << [msg |-> "preparing data..."], [msg |-> "calculating samples..."] >>
  /\ files = << >>
  /\ ngen = 0
  /\ nrej = 0
  /\ accepted = [k \in 1..Len(sample_sizes) |-> << >>]

config == << sample_n, termination_f, data, bounds, idx, aoi >>

\* for sample_size in sample_sizes: the next size class, lists and counter reset
ForNext ==
  /\ pc = "for"
  /\ ci < Len(sample_sizes)
  /\ ci' = ci + 1
  /\ stdout' = Append(stdout, [msg |-> "class", min |-> sample_sizes[ci + 1][1],
                                max |-> sample_sizes[ci + 1][2]])
  /\ out_mean' = FreshList(out_mean)
  /\ out_stdev' = FreshList(out_stdev)
  /\ out_geom' = FreshList(out_geom)
  /\ count' = 0
  /\ ngen' = 0
  /\ nrej' = 0
  /\ pc' = "while"
  /\ UNCHANGED << config, polygon, err, files, accepted >>

\* the for loop is exhausted: print("done")
ForEnd ==
  /\ pc = "for"
  /\ ci = Len(sample_sizes)
  /\ stdout' = Append(stdout, [msg |-> "done"])
  /\ pc' = "done"
  /\ UNCHANGED << config, ci, out_mean, out_stdev, out_geom, count, polygon, err, files,
                  ngen, nrej, accepted >>

\* the loop head: another iteration, or fall out to the export
WhileTest ==
  /\ pc = "while"
  /\ pc' = IF LoopCond(out_geom, sample_n) THEN "tick" ELSE "export"
  /\ UNCHANGED << config, ci, out_mean, out_stdev, out_geom, count, polygon, err, stdout,
                  files, ngen, nrej, accepted >>

\* count += 1, then the give-up check: report and break
Tick ==
  /\ pc = "tick"
  /\ count < MaxCount
  /\ count' = count + 1
  /\ IF GiveUp(count', sample_n, termination_f)
     THEN /\ stdout' = Append(stdout, FailedMsg(sample_sizes[ci], out_geom))
          /\ pc' = "export"
     ELSE /\ stdout' = stdout
          /\ pc' = "gen"
  /\ UNCHANGED << config, ci, out_mean, out_stdev, out_geom, polygon, err, files,
                  ngen, nrej, accepted >>

\* size, point and polygon of the candidate
Generate ==
  /\ pc = "gen"
  /\ ~bounds.nan
  /\ \E size \in SizeDraws(sample_sizes[ci]) :
       \E px \in IntUniform(bounds.b[1], bounds.b[3] - size, XSamples) :
         \E py \in IntUniform(bounds.b[2], bounds.b[4] - size, YSamples) :
           polygon' = RotatedSquare(px, py, size)
  /\ ngen' = ngen + 1
  /\ pc' = "aoi"
  /\ UNCHANGED << config, ci, out_mean, out_stdev, out_geom, count, err, stdout, files,
                  nrej, accepted >>

\* with NaN bounds uniform returns NaN and int(NaN) raises ValueError
GenerateNaN ==
  /\ pc = "gen"
  /\ bounds.nan
  /\ err' = "ValueError"
  /\ pc' = "crashed"
  /\ UNCHANGED << config, ci, out_mean, out_stdev, out_geom, count, polygon, stdout, files,
                  ngen, nrej, accepted >>

\* the AOI test: continue when no AOI polygon contains the candidate
AoiCheck ==
  /\ pc = "aoi"
  /\ IF ~AoiTest(polygon, aoi)
     THEN /\ pc' = "while"
          /\ nrej' = nrej + 1
     ELSE /\ pc' = "stats"
          /\ nrej' = nrej
  /\ UNCHANGED << config, ci, out_mean, out_stdev, out_geom, count, polygon, err, stdout,
                  files, ngen, accepted >>

\* index query, exact filter, statistics and the three appends
Stats ==
  /\ pc = "stats"
  /\ LET vals == Vals(data, idx, polygon)
     IN  IF Raised(mean(vals))
         THEN /\ err' = mean(vals).error
              /\ pc' = "crashed"
              /\ UNCHANGED << out_mean, out_stdev, out_geom, accepted >>
         ELSE IF Raised(pstdev(vals))
         THEN /\ err' = pstdev(vals).error
              /\ pc' = "crashed"
              /\ out_mean' = ListAppend(out_mean, mean(vals))
              /\ UNCHANGED << out_stdev, out_geom, accepted >>
         ELSE /\ out_mean' = ListAppend(out_mean, mean(vals))
              /\ out_stdev' = ListAppend(out_stdev, pstdev(vals))
              /\ out_geom' = ListAppend(out_geom, polygon)
              /\ accepted' = [accepted EXCEPT ![ci] = Append(@, polygon)]
              /\ err' = err
              /\ pc' = "while"
  /\ UNCHANGED << config, ci, count, polygon, stdout, files, ngen, nrej >>

\* export result (if there is one to export)
Export ==
  /\ pc = "export"
  /\ files' = IF HasResult(out_geom)
              THEN Append(files, [path |-> OutPath(sample_sizes[ci]),
                                  records |-> Result(out_mean, out_stdev, out_geom)])
              ELSE files
  /\ pc' = "for"
  /\ UNCHANGED << config, ci, out_mean, out_stdev, out_geom, count, polygon, err, stdout,
                  ngen, nrej, accepted >>

Next ==
  \/ ForNext
  \/ ForEnd
  \/ WhileTest
  \/ Tick
  \/ Generate
  \/ GenerateNaN
  \/ AoiCheck
  \/ Stats
  \/ Export

Spec == Init /\ [][Next]_vars

(* ------------------------- derived observations ------------------------ *)
budget == sample_n * termination_f

Last(s) == s[Len(s)]

\* the size class whose loop is running or has just finished
InClass == ci >= 1

\* the loop of the current class has ended (break or loop condition)
LoopDone == InClass /\ pc \in {"export", "for"}

\* the current class has been exported (or skipped) and the next one not yet started
ClassDone == InClass /\ pc = "for"

\* the give-up diagnostic of the current class is the last line printed
GaveUp == Last(stdout).msg = "failed"

Geometries(records) == [k \in 1..Len(records) |-> records[k].geometry]

InSomeAoiPolygon(poly) == \E i \in 1..Len(aoi) : Within(poly, aoi[i])

(* --------------------------------- C1 ---------------------------------- *)
\* C1: the loop of a size class stops only because the target count or the budget
\* was reached, and the attempt counter never exceeds budget = sample_n * termination_f.
C1_WithinBudget ==
  /\ InClass => count <= budget
  /\ LoopDone => (Len(out_geom) = sample_n \/ count = budget)

(* --------------------------------- C2 ---------------------------------- *)
\* C2: when the loop of a class is done, exactly one holds: (a) exactly sample_n samples
\* and no give-up diagnostic, or (b) count = budget, fewer than sample_n samples, a
\* diagnostic with the class and the partial count, every accepted sample still in the
\* result set; and a non-empty result set is exported.
C2_OutcomeA == Len(out_geom) = sample_n /\ ~GaveUp

C2_OutcomeB ==
  /\ count = budget
  /\ Len(out_geom) < sample_n
  /\ GaveUp
  /\ Last(stdout) = FailedMsg(sample_sizes[ci], out_geom)
  /\ out_geom = accepted[ci]

C2_DoneOutcome ==
  /\ LoopDone => (C2_OutcomeA /\ ~C2_OutcomeB) \/ (~C2_OutcomeA /\ C2_OutcomeB)
  /\ (ClassDone /\ Len(accepted[ci]) > 0) =>
       /\ Len(files) > 0
       /\ Last(files).path = OutPath(sample_sizes[ci])
       /\ Geometries(Last(files).records) = accepted[ci]

C2_Witness ==
  /\ ClassDone
  /\ C2_OutcomeB
  /\ Len(out_geom) >= 1
  /\ Len(files) > 0
  /\ Geometries(Last(files).records) = out_geom

(* --------------------------------- C3 ---------------------------------- *)
\* C3: every sample of a result set, and every candidate that reaches the statistics
\* step, lies within one single AOI polygon.
C3_SamplesInsideOnePolygon ==
  /\ \A k \in 1..Len(out_geom) : InSomeAoiPolygon(out_geom[k])
  /\ \A f \in 1..Len(files) : \A k \in 1..Len(files[f].records) :
        InSomeAoiPolygon(files[f].records[k].geometry)
  /\ pc = "stats" => InSomeAoiPolygon(polygon)

\* a candidate covered by the union of two AOI polygons but by neither was rejected
C3_Witness ==
  /\ Len(aoi) = 2
  /\ pc = "while"
  /\ nrej >= 1
  /\ Within(polygon, AoiHull(aoi))
  /\ ~InSomeAoiPolygon(polygon)
  /\ Len(out_geom) >= 1
  /\ polygon \notin {out_geom[k] : k \in 1..Len(out_geom)}

(* --------------------------------- C4 ---------------------------------- *)
\* C4: the datasets emitted so far are exactly those of the finished classes with at
\* least one accepted sample, in class order, each holding the accepted samples of its
\* class in acceptance order under the min-max label of the class.
RECURSIVE ExpectedFiles(_)
ExpectedFiles(k) ==
  IF k = 0 THEN << >>
  ELSE IF Len(accepted[k]) = 0 THEN ExpectedFiles(k - 1)
  ELSE Append(ExpectedFiles(k - 1), [path |-> OutPath(sample_sizes[k]), geoms |-> accepted[k]])

EmittedFiles ==
  [f \in 1..Len(files) |-> [path |-> files[f].path, geoms |-> Geometries(files[f].records)]]

FinishedClasses == IF pc \in {"for", "done"} THEN ci ELSE IF ci = 0 THEN 0 ELSE ci - 1

C4_EmittedIffAccepted ==
  /\ EmittedFiles = ExpectedFiles(FinishedClasses)
  /\ \A f \in 1..Len(files) : Len(files[f].records) > 0

C4_Witness ==
  /\ pc = "done"
  /\ Len(accepted[1]) = 2
  /\ accepted[1][1] /= accepted[1][2]
  /\ Len(accepted[2]) = 0
  /\ Len(files) = 1

(* --------------------------------- C5 ---------------------------------- *)
\* the side of the smallest plot of a class, squared, against the extent of the bounds
MinSideExceedsExtent ==
  /\ ~bounds.nan
  /\ \E k \in 1..Len(sample_sizes) :
       \/ sample_sizes[k][1] * 10000 > (bounds.b[3] - bounds.b[1]) * (bounds.b[3] - bounds.b[1])
       \/ sample_sizes[k][1] * 10000 > (bounds.b[4] - bounds.b[2]) * (bounds.b[4] - bounds.b[2])

BadConfiguration == Len(data) = 0 \/ Len(aoi) = 0 \/ MinSideExceedsExtent

\* C5: with an empty point dataset, an empty AOI or a class whose minimum side exceeds
\* the extent, the run is aborted before sampling: the acceptance loop is never entered.
C5_AbortedBeforeSampling ==
  BadConfiguration =>
    /\ pc \notin {"tick", "gen", "aoi", "stats"}
    /\ count = 0
    /\ ngen = 0

(* --------------------------------- C6 ---------------------------------- *)
\* C6: a candidate that passed the AOI test and contains no point makes the statistics
\* step fail with StatisticsError and leaves mean, stdev and geometry lists as they
\* were; no sample without data points is ever in a result set.
C6_Step ==
  (pc = "stats" /\ Vals(data, idx, polygon) = << >>) =>
     /\ pc' = "crashed"
     /\ err' = "StatisticsError"
     /\ out_mean' = out_mean
     /\ out_stdev' = out_stdev
     /\ out_geom' = out_geom

C6_NoEmptySample ==
  /\ \A k \in 1..Len(out_mean) : ~Raised(out_mean[k]) /\ out_mean[k].den >= 1
  /\ \A k \in 1..Len(out_stdev) : ~Raised(out_stdev[k]) /\ out_stdev[k].varden >= 1
  /\ \A k \in 1..Len(out_geom) : \E i \in 1..Len(data) : PointWithin(data[i], out_geom[k])

C6_EmptyFailsExplicitly == [][C6_Step]_vars /\ []C6_NoEmptySample

C6_Witness ==
  /\ pc = "crashed"
  /\ err = "StatisticsError"
  /\ Len(out_geom) >= 1
  /\ \A i \in 1..Len(data) : ~PointWithin(data[i], polygon)

(* --------------------------------- C7 ---------------------------------- *)
\* C7: classes are taken one at a time in configured order; a class that gave up or
\* completed is followed by the next one; each class starts with empty lists and
\* count 0; the result set holds samples of the current class only and the samples
\* recorded for the other classes do not change.
C7_Step ==
  /\ ci' /= ci => /\ ci' = ci + 1
                  /\ pc = "for" /\ pc' = "while"
                  /\ out_mean' = << >> /\ out_stdev' = << >> /\ out_geom' = << >>
                  /\ count' = 0
  /\ pc = "export" => pc' = "for" /\ ci' = ci
  /\ (pc = "for" /\ ci < Len(sample_sizes)) => ci' = ci + 1
  /\ \A k \in 1..Len(sample_sizes) : k /= ci' => accepted'[k] = accepted[k]
  /\ (InClass /\ ci' = ci) => (out_geom' = accepted'[ci])

C7_ClassesIndependent == [][C7_Step]_vars

C7_Witness ==
  /\ ci = 2
  /\ pc = "while"
  /\ \E m \in 1..Len(stdout) : stdout[m] = FailedMsg(sample_sizes[1], accepted[1])
  /\ Len(accepted[1]) >= 1
  /\ Len(out_geom) >= 1
  /\ count < budget

(* --------------------------------- C8 ---------------------------------- *)
ProbeCoords == {25 * k : k \in (-4)..20}
ProbePoints == {Pt(x, y, 0) : x \in ProbeCoords, y \in ProbeCoords}

RowsOf(s) == {s[k] : k \in 1..Len(s)}

\* C8: for a candidate at the statistics step the index query on its bounding box,
\* narrowed by the exact test, yields exactly the dataset points inside the polygon;
\* no point inside the polygon has a box outside the queried bounding box.
C8_NoFalseNegatives ==
  pc = "stats" =>
    /\ RowsOf(precise_matches(data, idx, polygon))
         = {r \in RowsOf(data) : PointWithin(r, polygon)}
    /\ Len(precise_matches(data, idx, polygon))
         = Cardinality({i \in 1..Len(data) : PointWithin(data[i], polygon)})
    /\ \A p \in ProbePoints :
         PointWithin(p, polygon) =>
           BoxIntersects(Rect(p.x, p.y, p.x, p.y), PolygonBounds(polygon))

\* some point is inside, some is an index false positive, some is not returned at all
C8_Witness ==
  /\ pc = "stats"
  /\ Len(precise_matches(data, idx, polygon)) >= 2
  /\ Len(possible_matches(data, idx, polygon)) > Len(precise_matches(data, idx, polygon))
  /\ Len(possible_matches(data, idx, polygon)) < Len(data)

(* --------------------------------- C9 ---------------------------------- *)
\* C9: at every loop head count = accepted + rejected, and a class that generates
\* candidates generates at most budget - 1 of them.
C9_SharedCounter ==
  /\ (InClass /\ pc = "while") => count = Len(out_geom) + nrej
  /\ (InClass /\ ngen > 0) => ngen <= budget - 1

(* --------------------------------- C10 --------------------------------- *)
IsPrefix(s, t) == Len(s) <= Len(t) /\ SubSeq(t, 1, Len(s)) = s

\* C10: within a class every step leaves the three lists unchanged or appends exactly
\* one element at the end of each; at the loop head the lists have equal lengths, and
\* the length never exceeds sample_n.
C10_Step ==
  ci' = ci =>
    \/ out_mean' = out_mean /\ out_stdev' = out_stdev /\ out_geom' = out_geom
    \/ /\ Len(out_mean') = Len(out_mean) + 1 /\ IsPrefix(out_mean, out_mean')
       /\ Len(out_stdev') = Len(out_stdev) + 1 /\ IsPrefix(out_stdev, out_stdev')
       /\ out_geom' = Append(out_geom, polygon)

C10_Lengths ==
  /\ pc = "while" => Len(out_mean) = Len(out_geom) /\ Len(out_stdev) = Len(out_geom)
  /\ Len(out_geom) <= sample_n

C10_AppendOnly == [][C10_Step]_vars /\ []C10_Lengths

C10_Witness ==
  /\ pc = "while"
  /\ Len(out_geom) = 2
  /\ out_geom[1] /= out_geom[2]
  /\ out_mean[1] /= out_mean[2]
  /\ nrej >= 1
====
